---- MODULE Spec2Model ----
(***************************************************************************)
(* Model of the device automation server (src/main.py): the peer registry  *)
(* (device_registry), the connection table (connected_devices), the task   *)
(* correlator (screenshot_tasks), the front-door handlers and the          *)
(* WebSocket connection handler device_websocket.                          *)
(*                                                                         *)
(* The server runs on one asyncio event loop: a handler runs without       *)
(* interruption between two awaits, so every action below is the code      *)
(* between two suspension points of one coroutine.                         *)
(*                                                                         *)
(* The indentation of lines 350-375 of src/main.py is damaged; they are    *)
(* read as: try: while True: receive a message, parse it, handle the       *)
(* reply; except WebSocketDisconnect: log.                                 *)
(***************************************************************************)
EXTENDS Integers, FiniteSets, Sequences, TLC

\* ---------------------------------------------------------------- bounds
\* connections ever accepted, screenshot requests ever made, clock ticks and
\* the length of a tick in seconds
MaxConns == 2
MaxTasks == 1
MaxTicks == 3
TickLen == 150

\* ------------------------------------------------------ program constants
Retention == 300
PolicyViolation == 1008
SECRET_KEY == "your-secret-key-123"

\* ----------------------------------------------------------- value sets
\* Python's None, and a present optional value.
None == <<>>
Some(x) == <<x>>

\* Ids that register_device can hand out (uuid4, never repeated), and one
\* id that no registration ever produced.
PeerOrder == <<"p1", "p2">>
Peers == {PeerOrder[i] : i \in DOMAIN PeerOrder}
UnknownPeer == "p0"
DeviceIds == Peers \cup {UnknownPeer}

Conns == 1..MaxConns
RequestIds == 1..MaxTasks
\* a command id that no screenshot request ever generated
ForeignId == MaxTasks + 1
CommandIds == RequestIds \cup {ForeignId}

\* The "result" of a reply: an object, absent, or valid JSON that is no
\* object (NotADict).
Results == {[kind |-> "object", screenshot |-> Some("img1"), resolution |-> Some("res1")]}
NoResult == [kind |-> "absent", screenshot |-> None, resolution |-> None]
NotADict == [kind |-> "other", screenshot |-> None, resolution |-> None]
EmptyDict == [kind |-> "object", screenshot |-> None, resolution |-> None]
ErrorMessages == {"capture failed"}
WriteError == "send failed"

VARIABLES
    device_registry,    \* device_id -> [device_id, status]
    connected_devices,  \* device_id -> the channel (connection) stored for it
    screenshot_tasks,   \* request_id -> task record
    conns,              \* per connection handler: position and done_atory
    sent,               \* screenshot commands written: <<channel, command_id>>
    sending,            \* request_id -> channel, for requests suspended in send_text
    next_request,       \* the next uuid of request_screenshot
    now,                \* datetime.now()
    response,           \* the response a front-door handler is returning
    done_at             \* request_id -> time of the task's first terminal transition

vars == <<device_registry, connected_devices, screenshot_tasks, conns, sent,
          sending, next_request, now, response, done_at>>


\* ------------------------------------------------------------- helpers
Put(f, k, v) == [x \in DOMAIN f \cup {k} |-> IF x = k THEN v ELSE f[x]]
Pop(f, k) == [x \in DOMAIN f \ {k} |-> f[x]]
Terminal(status) == status \in {"completed", "failed"}

\* create_token / verify_token: a token verifies iff it was signed with
\* SECRET_KEY; verification gives back the payload.
create_token(device_id) ==
    [device_id |-> device_id, type |-> "device", key |-> SECRET_KEY]
ForgedToken(device_id) ==
    [device_id |-> device_id, type |-> "device", key |-> "other-key"]
\* the ValueError of verify_token
InvalidToken == [valid |-> FALSE, device_id |-> "", type |-> ""]
verify_token(token) ==
    IF token.key = SECRET_KEY
    THEN [valid |-> TRUE, device_id |-> token.device_id, type |-> token.type]
    ELSE InvalidToken

\* Tokens a client can present: the ones issued by register_device, and
\* a token that does not verify.
AllTokens == {create_token(p) : p \in Peers} \cup {ForgedToken(PeerOrder[1])}
Tokens == {create_token(p) : p \in DOMAIN device_registry}
          \cup {ForgedToken(PeerOrder[1])}

\* No front-door handler is returning. A handler returns in the same run of
\* the event loop that produced its response, so no other handler runs
\* before the caller has it.
NoResponse == [op |-> "none"]

Ready == response = NoResponse

IdleConn == [pc |-> "idle", device_id |-> UnknownPeer, token |-> None,
             code |-> None, bound |-> FALSE, cleanups |-> 0, exit |-> "none"]

Init ==
    /\ device_registry = <<>>
    /\ connected_devices = <<>>
    /\ screenshot_tasks = <<>>
    /\ conns = [c \in Conns |-> IdleConn]
    /\ sent = {}
    /\ sending = <<>>
    /\ next_request = 1
    /\ now = 0
    /\ response = NoResponse
    /\ done_at = <<>>

\* ------------------------------------------------------------ the clock
\* The code only ever compares the clock with the timestamps of tasks, so
\* the clock is started by the first task.
Tick ==
    /\ Ready
    /\ next_request > 1
    /\ now < MaxTicks * TickLen
    /\ now' = now + TickLen
    /\ UNCHANGED <<device_registry, connected_devices, screenshot_tasks, conns,
                   sent, sending, next_request, response, done_at>>

\* ------------------------------------------------------- register_device
register_device(p) ==
    /\ Ready
    /\ Cardinality(DOMAIN device_registry) < Len(PeerOrder)
    /\ p = PeerOrder[Cardinality(DOMAIN device_registry) + 1]
    /\ device_registry' = Put(device_registry, p,
                              [device_id |-> p, status |-> "registered"])
    /\ response' = [op |-> "register", code |-> 200, device_id |-> p,
                    token |-> create_token(p)]
    /\ UNCHANGED <<connected_devices, screenshot_tasks, conns, sent, sending,
                   next_request, now, done_at>>

\* ---------------------------------------------------- request_screenshot
NewTask(device_id) ==
    [status |-> "pending", device_id |-> device_id, created_at |-> now,
     screenshot |-> None, resolution |-> None, error |-> None,
     completed_at |-> None]

\* A faulty handler that stores the task before it checks that the device
\* is connected.
request_screenshot_task_first(device_id) ==
    /\ Ready
    /\ device_id \in DOMAIN device_registry
    /\ next_request <= MaxTasks
    /\ screenshot_tasks' =
         Put(screenshot_tasks, next_request, NewTask(device_id))
    /\ done_at' = Put(done_at, next_request, None)
    /\ next_request' = next_request + 1
    /\ IF device_id \notin DOMAIN connected_devices
       THEN /\ response' = [op |-> "request", code |-> 503,
                            device_id |-> device_id, wrote |-> None]
            /\ UNCHANGED sending
       ELSE /\ sending' = Put(sending, next_request, connected_devices[device_id])
            /\ response' = NoResponse
    /\ UNCHANGED <<device_registry, connected_devices, conns, sent, now>>

\* A faulty handler that starts the write before it stores the task.
request_screenshot_write_first(device_id) ==
    /\ Ready
    /\ device_id \in DOMAIN device_registry
    /\ device_id \in DOMAIN connected_devices
    /\ next_request <= MaxTasks
    /\ sending' = Put(sending, next_request, connected_devices[device_id])
    /\ next_request' = next_request + 1
    /\ UNCHANGED <<device_registry, connected_devices, screenshot_tasks, conns,
                   sent, now, response, done_at>>

\* Lines 199-230: the checks, the task and the start of the write. The
\* handler then waits in `await websocket.send_text`.
request_screenshot(device_id) ==
    /\ Ready
    /\ IF device_id \notin DOMAIN device_registry
       THEN /\ response' = [op |-> "request", code |-> 404,
                            device_id |-> device_id, wrote |-> None]
            /\ UNCHANGED <<screenshot_tasks, sending, next_request, done_at>>
       ELSE IF device_id \notin DOMAIN connected_devices
       THEN /\ response' = [op |-> "request", code |-> 503,
                            device_id |-> device_id, wrote |-> None]
            /\ UNCHANGED <<screenshot_tasks, sending, next_request, done_at>>
       ELSE /\ next_request <= MaxTasks
            /\ screenshot_tasks' =
                 Put(screenshot_tasks, next_request, NewTask(device_id))
            /\ done_at' = Put(done_at, next_request, None)
            /\ sending' = Put(sending, next_request, connected_devices[device_id])
            /\ next_request' = next_request + 1
            /\ response' = NoResponse
    /\ UNCHANGED <<device_registry, connected_devices, conns, sent, now>>

\* Lines 231-233: the write returned.
request_sent(request_id) ==
    /\ Ready
    /\ request_id \in DOMAIN sending
    /\ sent' = sent \cup {<<sending[request_id], request_id>>}
    /\ sending' = Pop(sending, request_id)
    /\ response' = [op |-> "request", code |-> 200, request_id |-> request_id,
                    status |-> "pending"]
    /\ UNCHANGED <<device_registry, connected_devices, screenshot_tasks, conns,
                   next_request, now, done_at>>

\* Lines 235-240: the write raised.
request_write_failed(request_id) ==
    /\ Ready
    /\ request_id \in DOMAIN sending
    /\ sending' = Pop(sending, request_id)
    /\ IF request_id \in DOMAIN screenshot_tasks
       THEN /\ screenshot_tasks' =
                 [screenshot_tasks EXCEPT ![request_id].status = "failed",
                                          ![request_id].error = Some(WriteError)]
            /\ done_at' = [done_at EXCEPT ![request_id] =
                               IF @ = None THEN Some(now) ELSE @]
       ELSE UNCHANGED <<screenshot_tasks, done_at>>
    /\ response' = [op |-> "request", code |-> 500]
    /\ UNCHANGED <<device_registry, connected_devices, conns, sent,
                   next_request, now>>

\* ------------------------------------------------- get_screenshot_status
\* Lines 250-257: the ScreenshotTaskResponse built from the task.
StatusResponse(request_id) ==
    LET task == screenshot_tasks[request_id] IN
    [op |-> "status", code |-> 200, request_id |-> request_id,
     status |-> task.status, screenshot |-> task.screenshot,
     timestamp |-> task.completed_at, resolution |-> task.resolution,
     error |-> task.error]

\* A faulty removal test that forgets the failed tasks.
ExpiredCompletedOnly(task) ==
    /\ task.status = "completed"
    /\ now - task.created_at > Retention

\* A faulty removal test that leaves out the status check of line 260.
ExpiredAnyStatus(task) ==
    now - task.created_at > Retention

\* Lines 260-262: the task is due for removal.
Expired(task) ==
    /\ task.status \in {"completed", "failed"}
    /\ now - task.created_at > Retention

get_screenshot_status(request_id) ==
    /\ Ready
    /\ IF request_id \notin DOMAIN screenshot_tasks
       THEN /\ response' = [op |-> "status", code |-> 404, request_id |-> request_id]
            /\ UNCHANGED <<screenshot_tasks, done_at>>
       ELSE /\ response' = StatusResponse(request_id)
            /\ screenshot_tasks' =
                 IF Expired(screenshot_tasks[request_id])
                 THEN Pop(screenshot_tasks, request_id)
                 ELSE screenshot_tasks
            /\ UNCHANGED done_at
    /\ UNCHANGED <<device_registry, connected_devices, conns, sent, sending,
                   next_request, now>>

\* ------------------------------------------------------- execute_command
\* A faulty handler that drops the connection of a device whose write
\* failed.
execute_command_dropping(device_id, command_id, ok) ==
    /\ Ready
    /\ device_id \in DOMAIN device_registry
    /\ device_id \in DOMAIN connected_devices
    /\ ~ok
    /\ response' = [op |-> "execute", code |-> 500, device_id |-> device_id,
                    wrote |-> Some(connected_devices[device_id])]
    /\ connected_devices' = Pop(connected_devices, device_id)
    /\ device_registry' =
         [device_registry EXCEPT ![device_id].status = "disconnected"]
    /\ UNCHANGED <<screenshot_tasks, conns, sent, sending, next_request, now,
                   done_at>>

\* `wrote` is the channel send_text was called on, whether it returned (200)
\* or raised (500).
execute_command(device_id, command_id, ok) ==
    /\ Ready
    /\ IF device_id \notin DOMAIN device_registry
       THEN /\ response' = [op |-> "execute", code |-> 404,
                            device_id |-> device_id, wrote |-> None]
            /\ UNCHANGED sent
       ELSE IF device_id \notin DOMAIN connected_devices
       THEN /\ response' = [op |-> "execute", code |-> 503,
                            device_id |-> device_id, wrote |-> None]
            /\ UNCHANGED sent
       ELSE IF ok
       THEN /\ response' = [op |-> "execute", code |-> 200,
                            command_id |-> command_id, device_id |-> device_id,
                            wrote |-> Some(connected_devices[device_id])]
            /\ UNCHANGED sent
       ELSE /\ response' = [op |-> "execute", code |-> 500,
                            device_id |-> device_id,
                            wrote |-> Some(connected_devices[device_id])]
            /\ UNCHANGED sent
    /\ UNCHANGED <<device_registry, connected_devices, screenshot_tasks, conns,
                   sending, next_request, now, done_at>>

\* The caller receives the response of the handler that just returned.
respond ==
    /\ response # NoResponse
    /\ response' = NoResponse
    /\ UNCHANGED <<device_registry, connected_devices, screenshot_tasks, conns,
                   sent, sending, next_request, now, done_at>>

\* ------------------------------------------------------ device_websocket
\* A faulty cleanup that removes the table entry only when it holds the
\* handler's own channel, and marks the device disconnected in any case.
CleanupPopOwnOnly(c, exit) ==
    LET device_id == conns[c].device_id IN
    /\ connected_devices' =
         IF device_id \in DOMAIN connected_devices
            /\ connected_devices[device_id] = c
         THEN Pop(connected_devices, device_id)
         ELSE connected_devices
    /\ device_registry' =
         IF device_id \in DOMAIN device_registry
         THEN [device_registry EXCEPT ![device_id].status = "disconnected"]
         ELSE device_registry
    /\ conns' = [conns EXCEPT ![c].pc = "closed",
                              ![c].cleanups = @ + 1,
                              ![c].exit = exit]

\* A faulty cleanup that marks the device disconnected and leaves its
\* channel in the table (line 382 left out).
CleanupStatusOnly(c, exit) ==
    LET device_id == conns[c].device_id IN
    /\ UNCHANGED connected_devices
    /\ device_registry' =
         IF device_id \in DOMAIN device_registry
         THEN [device_registry EXCEPT ![device_id].status = "disconnected"]
         ELSE device_registry
    /\ conns' = [conns EXCEPT ![c].pc = "closed",
                              ![c].cleanups = @ + 1,
                              ![c].exit = exit]

\* Lines 380-384, the finally block: runs when the handler leaves the try
\* statement, whichever way.
Cleanup(c, exit) ==
    LET device_id == conns[c].device_id IN
    /\ connected_devices' = Pop(connected_devices, device_id)
    /\ device_registry' =
         IF device_id \in DOMAIN device_registry
         THEN [device_registry EXCEPT ![device_id].status = "disconnected"]
         ELSE device_registry
    /\ conns' = [conns EXCEPT ![c].pc = "closed",
                              ![c].cleanups = @ + 1,
                              ![c].exit = exit]

\* Line 325: the channel is accepted for the device id of the URL; the
\* handler then waits for the authentication message.
accept(c, device_id) ==
    /\ Ready
    /\ conns[c].pc = "idle"
    /\ device_id \in DOMAIN device_registry \cup {UnknownPeer}
    /\ \A b \in Conns : b < c => conns[b].pc # "idle"
    /\ conns' = [conns EXCEPT ![c].pc = "accepted", ![c].device_id = device_id]
    /\ UNCHANGED <<device_registry, connected_devices, screenshot_tasks, sent,
                   sending, next_request, now, response, done_at>>

\* A faulty auth check that accepts every token that verifies, whatever
\* device id it encodes (line 336 left out).
AuthCheckTokenOnly(token, device_id) ==
    IF ~verify_token(token).valid THEN "invalid" ELSE "ok"

\* Lines 334-341: the outcome of the auth check for the device id of the URL.
AuthCheck(token, device_id) ==
    LET payload == verify_token(token) IN
    IF ~payload.valid THEN "invalid"
    ELSE IF payload.device_id # device_id THEN "mismatch"
    ELSE "ok"

\* Lines 329-346: the authentication message arrives. A rejected channel is
\* closed with code 1008 and the handler waits in `await websocket.close`.
authenticate(c, token) ==
    LET device_id == conns[c].device_id IN
    /\ Ready
    /\ conns[c].pc = "accepted"
    /\ token \in Tokens
    /\ IF AuthCheck(token, device_id) = "ok"
       THEN /\ connected_devices' = Put(connected_devices, device_id, c)
            /\ device_registry' =
                 IF device_id \in DOMAIN device_registry
                 THEN [device_registry EXCEPT ![device_id].status = "connected"]
                 ELSE device_registry
            /\ conns' = [conns EXCEPT ![c].pc = "active",
                                      ![c].token = Some(token),
                                      ![c].bound = TRUE]
       ELSE /\ conns' = [conns EXCEPT ![c].pc = "closing",
                                      ![c].token = Some(token),
                                      ![c].code = Some(PolicyViolation)]
            /\ UNCHANGED <<connected_devices, device_registry>>
    /\ UNCHANGED <<screenshot_tasks, sent, sending, next_request, now,
                   response, done_at>>

\* Lines 338/341 and 380-384: `return` after the close, through finally.
close_returned(c) ==
    /\ Ready
    /\ conns[c].pc = "closing"
    /\ Cleanup(c, "rejected")
    /\ UNCHANGED <<screenshot_tasks, sent, sending, next_request, now,
                   response, done_at>>

\* Lines 329-330, 377-384: receive_text or json.loads raises before the
\* authentication (the client went away, or sent no JSON).
auth_raised(c) ==
    /\ Ready
    /\ conns[c].pc = "accepted"
    /\ Cleanup(c, "error")
    /\ UNCHANGED <<screenshot_tasks, sent, sending, next_request, now,
                   response, done_at>>

\* Replies a device can send: "success" with a result, any other status
\* with or without an error message; with the id of a task, another id or
\* no id.
ReplyIds == {None} \cup {Some(k) : k \in CommandIds}
Replies ==
    [command_id : ReplyIds, status : {"success"},
     result : Results \cup {NoResult, NotADict}, error_message : {None}]
    \cup
    [command_id : ReplyIds, status : {"error"},
     result : {NoResult}, error_message : {None} \cup {Some(e) : e \in ErrorMessages}]

\* Line 359: the reply names a task of the correlator.
Matches(reply) ==
    /\ reply.command_id # None
    /\ reply.command_id[1] \in DOMAIN screenshot_tasks

\* Lines 363-367 raise at `result.get` when "result" is no object; the
\* status is already "completed" then.
ReplyRaises(reply) ==
    /\ Matches(reply)
    /\ reply.status = "success"
    /\ reply.result = NotADict

\* A faulty resolution that records the status of the reply and drops the
\* result and the error message it carries.
ResolveStatusOnly(task, reply) ==
    IF reply.status = "success"
    THEN [task EXCEPT !.status = "completed", !.completed_at = Some(now)]
    ELSE [task EXCEPT !.status = "failed", !.error = Some("Unknown error")]

\* Lines 360-372: the task after the reply.
Resolve(task, reply) ==
    IF reply.status = "success"
    THEN IF reply.result = NotADict
         THEN [task EXCEPT !.status = "completed"]
         ELSE LET result == IF reply.result = NoResult THEN EmptyDict
                            ELSE reply.result IN
              [task EXCEPT !.status = "completed",
                           !.screenshot = result.screenshot,
                           !.resolution = result.resolution,
                           !.completed_at = Some(now)]
    ELSE [task EXCEPT !.status = "failed",
                      !.error = IF reply.error_message = None
                                THEN Some("Unknown error")
                                ELSE reply.error_message]

\* Lines 358-372: the correlator after the reply.
TasksAfter(reply) ==
    IF Matches(reply)
    THEN [screenshot_tasks EXCEPT ![reply.command_id[1]] = Resolve(@, reply)]
    ELSE screenshot_tasks

\* Lines 353-372: one message of the receive loop.
receive_reply(c, reply) ==
    /\ Ready
    /\ conns[c].pc = "active"
    /\ screenshot_tasks' = TasksAfter(reply)
    /\ done_at' = IF Matches(reply)
                  THEN [done_at EXCEPT ![reply.command_id[1]] =
                            IF @ = None THEN Some(now) ELSE @]
                  ELSE done_at
    /\ IF ReplyRaises(reply)
       THEN Cleanup(c, "exception")
       ELSE UNCHANGED <<device_registry, connected_devices, conns>>
    /\ UNCHANGED <<sent, sending, next_request, now, response>>

\* A faulty handler whose cleanup sits in the `except WebSocketDisconnect`
\* clause instead of a finally block: any other exception skips it.
receive_raised_no_finally(c, why) ==
    /\ Ready
    /\ conns[c].pc = "active"
    /\ IF why = "disconnect"
       THEN Cleanup(c, why)
       ELSE /\ conns' = [conns EXCEPT ![c].pc = "closed", ![c].exit = why]
            /\ UNCHANGED <<device_registry, connected_devices>>
    /\ UNCHANGED <<screenshot_tasks, sent, sending, next_request, now,
                   response, done_at>>

\* A faulty cleanup that also fails the pending tasks of the device.
receive_raised_sweeping(c, why) ==
    /\ Ready
    /\ conns[c].pc = "active"
    /\ Cleanup(c, why)
    /\ screenshot_tasks' =
         [r \in DOMAIN screenshot_tasks |->
            IF /\ screenshot_tasks[r].device_id = conns[c].device_id
               /\ screenshot_tasks[r].status = "pending"
            THEN [screenshot_tasks[r] EXCEPT !.status = "failed"]
            ELSE screenshot_tasks[r]]
    /\ UNCHANGED <<sent, sending, next_request, now, response, done_at>>

\* A faulty receive loop that skips a message it cannot parse and goes on.
receive_raised_continue(c, why) ==
    /\ Ready
    /\ conns[c].pc = "active"
    /\ IF why = "disconnect"
       THEN Cleanup(c, why)
       ELSE /\ conns' = [conns EXCEPT ![c].exit = why]
            /\ UNCHANGED <<device_registry, connected_devices>>
    /\ UNCHANGED <<screenshot_tasks, sent, sending, next_request, now,
                   response, done_at>>

\* Lines 353-354, 374-384: the loop ends without a reply being handled:
\* end of stream (WebSocketDisconnect, "disconnect"), or a message that is
\* no JSON object, a transport error or the cancellation of the handler
\* ("error"). An exception raised while a reply is handled (receive_reply)
\* leaves the loop with exit "exception".
ExitReasons == {"disconnect", "error"}
receive_raised(c, why) ==
    /\ Ready
    /\ conns[c].pc = "active"
    /\ Cleanup(c, why)
    /\ UNCHANGED <<screenshot_tasks, sent, sending, next_request, now,
                   response, done_at>>

Next ==
    \/ Tick
    \/ \E p \in Peers : register_device(p)
    \/ \E d \in DeviceIds : request_screenshot(d)
    \/ \E r \in RequestIds : request_sent(r)
    \/ \E r \in RequestIds : request_write_failed(r)
    \/ \E r \in CommandIds : get_screenshot_status(r)
    \/ \E d \in DeviceIds, ok \in BOOLEAN : execute_command(d, ForeignId, ok)
    \/ \E c \in Conns, d \in DeviceIds : accept(c, d)
    \/ \E c \in Conns, t \in AllTokens : authenticate(c, t)
    \/ \E c \in Conns : close_returned(c)
    \/ \E c \in Conns : auth_raised(c)
    \/ \E c \in Conns, m \in Replies : receive_reply(c, m)
    \/ \E c \in Conns, why \in ExitReasons : receive_raised(c, why)
    \/ respond

Spec == Init /\ [][Next]_vars

\* What the event loop guarantees: time passes, a handler that returned is
\* answered, and an `await` on the server's own write or close completes
\* (it returns or raises). Nothing obliges a client to connect, to send a
\* message or to hang up, so accept, authenticate, receive_reply,
\* auth_raised and receive_raised carry no fairness; line 329 waits for the
\* authentication message without a timeout. The steps that wait for
\* `Ready` are enabled again after every response, hence strong fairness.
FairSpec ==
    /\ Spec
    /\ SF_vars(Tick)
    /\ WF_vars(respond)
    /\ \A c \in Conns : SF_vars(close_returned(c))
    /\ \A r \in RequestIds :
          SF_vars(request_sent(r) \/ request_write_failed(r))

\* ======================================================== the claims
Range(f) == {f[x] : x \in DOMAIN f}

\* The task of this id is terminal and the retention window has elapsed
\* since its terminal transition.
Overdue(request_id) ==
    /\ request_id \in DOMAIN screenshot_tasks
    /\ Terminal(screenshot_tasks[request_id].status)
    /\ done_at[request_id] # None
    /\ now - done_at[request_id][1] > Retention

\* A step in which the front door returns the response of a status read of
\* request id r.
ReadOf(r) ==
    /\ Ready
    /\ response'.op = "status"
    /\ response'.request_id = r

\* The handler of connection c leaves its try statement in this step.
Closes(c) == conns[c].pc # "closed" /\ conns'[c].pc = "closed"

\* The token that connection c presented verifies but encodes another
\* device id than the one c connected as.
PresentedMismatch(c) ==
    /\ conns[c].token # None
    /\ verify_token(conns[c].token[1]).valid
    /\ verify_token(conns[c].token[1]).device_id # conns[c].device_id

\* C1: when a second connection of peer p is bound while an earlier
\* connection of p is still in its receive loop, the cleanup of the earlier
\* connection leaves the second one in the connection table and p's status
\* connected.
C1_StaleCleanupKeepsNewer ==
    [][\A c1 \in Conns, c2 \in Conns :
         LET p == conns[c1].device_id IN
         ( /\ c1 # c2
           /\ conns[c1].pc = "active"
           /\ conns[c2].pc = "active"
           /\ conns[c2].device_id = p
           /\ p \in DOMAIN connected_devices
           /\ connected_devices[p] = c2
           /\ Closes(c1) )
         => ( /\ p \in DOMAIN connected_devices'
              /\ connected_devices'[p] = c2
              /\ device_registry'[p].status = "connected" )]_vars

\* C2: a completed task stays completed and a failed task stays failed for
\* as long as it is in the correlator.
C2_TaskStatusMonotonic ==
    [][\A r \in DOMAIN screenshot_tasks :
         (r \in DOMAIN screenshot_tasks'
          /\ Terminal(screenshot_tasks[r].status))
         => screenshot_tasks'[r].status = screenshot_tasks[r].status]_vars

\* C3: the steps of a connection whose authentication is rejected (the
\* close with the rejection code, then the handler's exit) leave the
\* connection table and the peer registry as they were.
C3_AuthFailureTouchesNothing ==
    [][\A c \in Conns :
         ( \/ conns[c].pc = "accepted" /\ conns'[c].pc = "closing"
           \/ conns[c].pc = "closing" /\ conns'[c].pc = "closed" )
         => UNCHANGED <<connected_devices, device_registry>>]_vars

\* C4: a connection that presented a valid token of another device id is
\* closed with the rejection code 1008 and its channel is never in the
\* connection table.
C4_MismatchRejected ==
    \A c \in Conns :
        PresentedMismatch(c)
        => /\ conns[c].code = Some(PolicyViolation)
           /\ conns[c].pc \in {"closing", "closed"}
           /\ ~conns[c].bound
           /\ c \notin Range(connected_devices)

C4_Witness ==
    \E c \in Conns :
        /\ PresentedMismatch(c)
        /\ conns[c].pc = "closed"
        /\ conns[c].device_id \in DOMAIN device_registry

\* C5: on an active connection, a reply that names no task or a task that
\* is already completed or failed raises nothing and leaves every task of
\* the correlator as it was.
C5_DroppedReplyChangesNothing ==
    (\E c \in Conns : conns[c].pc = "active")
    => \A reply \in Replies :
         (\/ ~Matches(reply)
          \/ Terminal(screenshot_tasks[reply.command_id[1]].status))
         => /\ TasksAfter(reply) = screenshot_tasks
            /\ ~ReplyRaises(reply)

\* C6: a task addressed to peer p changes only in a step of the receive
\* loop of a connection of p: when a task changes and no front-door handler
\* ran, a connection of the task's own peer was active.
C6_OnlyOwnPeerResolves ==
    [][\A r \in DOMAIN screenshot_tasks :
         ( /\ r \in DOMAIN screenshot_tasks'
           /\ screenshot_tasks'[r] # screenshot_tasks[r]
           /\ UNCHANGED <<sending, response>> )
         => \E c \in Conns :
              /\ conns[c].pc = "active"
              /\ conns[c].device_id = screenshot_tasks[r].device_id]_vars

\* C7: a handler that has ended has run its cleanup exactly once, and a
\* handler that has not ended has not run it.
C7_CleanupExactlyOnce ==
    \A c \in Conns :
        conns[c].cleanups = (IF conns[c].pc = "closed" THEN 1 ELSE 0)

\* two handlers left the receive loop, one by end of stream and one by an
\* exception
C7_Witness ==
    \E c1 \in Conns, c2 \in Conns :
        /\ conns[c1].pc = "closed" /\ conns[c1].bound
        /\ conns[c1].exit = "disconnect"
        /\ conns[c2].pc = "closed" /\ conns[c2].bound
        /\ conns[c2].exit = "error"

\* C8: a status read of a terminal task after the retention window since
\* its terminal transition returns the task's snapshot and removes the task
\* in the same step; a removed task never comes back, and every later read
\* of its id is answered 404.
C8_OverdueReadEvictsOnce ==
    [][\A r \in RequestIds :
         /\ (ReadOf(r) /\ Overdue(r))
            => /\ response'.code = 200
               /\ response'.status = screenshot_tasks[r].status
               /\ response'.screenshot = screenshot_tasks[r].screenshot
               /\ response'.error = screenshot_tasks[r].error
               /\ r \notin DOMAIN screenshot_tasks'
         /\ (r < next_request /\ r \notin DOMAIN screenshot_tasks)
            => /\ r \notin DOMAIN screenshot_tasks'
               /\ ReadOf(r) => response'.code = 404]_vars

\* a read of a created task is answered 404: the task was removed by an
\* earlier read
C8_Witness ==
    \E r \in RequestIds :
        /\ r < next_request
        /\ done_at[r] # None
        /\ now - done_at[r][1] > Retention
        /\ response.op = "status"
        /\ response.request_id = r
        /\ response.code = 404

\* C9: a status read of a terminal task less than the retention window
\* after the task's terminal transition does not remove the task.
C9_WindowFromCompletion ==
    [][\A r \in DOMAIN screenshot_tasks :
         ( /\ Terminal(screenshot_tasks[r].status)
           /\ done_at[r] # None
           /\ now - done_at[r][1] < Retention )
         => r \in DOMAIN screenshot_tasks']_vars

\* C10: a task that was created and has made no terminal transition is in
\* the correlator with status pending.
C10_PendingNeverRemoved ==
    \A r \in DOMAIN done_at :
        done_at[r] = None
        => /\ r \in DOMAIN screenshot_tasks
           /\ screenshot_tasks[r].status = "pending"

\* a pending task older than the retention window has just been read
C10_Witness ==
    \E r \in DOMAIN screenshot_tasks :
        /\ screenshot_tasks[r].status = "pending"
        /\ now - screenshot_tasks[r].created_at > Retention
        /\ response.op = "status"
        /\ response.code = 200
        /\ response.request_id = r
        /\ response.status = "pending"

\* C11: a screenshot request or a command addressed to a device id that is
\* not registered is answered 404, and one addressed to a registered device
\* without an entry in the connection table is answered 503; in both cases
\* nothing is written to a channel and no task is created. (A step that
\* leaves `sending` as it was and sets a response of request_screenshot is
\* the handler answering from its checks, not from its write.)
C11_NotConnectedRejected ==
    [][\A d \in DeviceIds :
         LET unregistered == d \notin DOMAIN device_registry
             unconnected == /\ d \in DOMAIN device_registry
                            /\ d \notin DOMAIN connected_devices
         IN  (unregistered \/ unconnected)
             => /\ ( /\ Ready
                     /\ response'.op \in {"request", "execute"}
                     /\ sending' = sending
                     /\ response'.device_id = d )
                   => /\ response'.code = (IF unregistered THEN 404 ELSE 503)
                      /\ response'.wrote = None
                      /\ UNCHANGED <<screenshot_tasks, sent>>
                /\ \A r \in DOMAIN screenshot_tasks' \ DOMAIN screenshot_tasks :
                      screenshot_tasks'[r].device_id # d
                /\ \A r \in DOMAIN sending' \ DOMAIN sending :
                      conns[sending'[r]].device_id # d]_vars

\* a request for a registered device that never connected was answered 503
C11_Witness ==
    /\ response.op \in {"request", "execute"}
    /\ response.code = 503
    /\ device_registry[response.device_id].status = "registered"

\* C12: a peer's status never goes from registered to disconnected, and a
\* status that is no longer registered never becomes registered again.
C12_StatusLifecycle ==
    [][\A p \in DOMAIN device_registry :
         /\ device_registry[p].status = "registered"
            => device_registry'[p].status # "disconnected"
         /\ device_registry[p].status # "registered"
            => device_registry'[p].status # "registered"]_vars

\* C13: the step in which an active connection ends leaves every task as it
\* was; only a reply whose handling raised changes a task in that step, and
\* then only as the reply handling does.
C13_CloseChangesNoTask ==
    [][\A c \in Conns :
         (conns[c].pc = "active" /\ Closes(c))
         => IF conns'[c].exit = "exception"
            THEN \E reply \in Replies :
                    /\ ReplyRaises(reply)
                    /\ screenshot_tasks' = TasksAfter(reply)
            ELSE screenshot_tasks' = screenshot_tasks]_vars

\* the connection of a device ended, the device is marked disconnected, and
\* a read of its pending task is answered pending
C13_Witness ==
    \E r \in DOMAIN screenshot_tasks, c \in Conns :
        LET p == screenshot_tasks[r].device_id IN
        /\ screenshot_tasks[r].status = "pending"
        /\ conns[c].pc = "closed" /\ conns[c].bound
        /\ conns[c].device_id = p
        /\ p \notin DOMAIN connected_devices
        /\ device_registry[p].status = "disconnected"
        /\ response.op = "status"
        /\ response.code = 200
        /\ response.request_id = r
        /\ response.status = "pending"

\* C14: a screenshot request for a connected device stores a pending task
\* and starts the write of the command with the task's id on the channel
\* the table holds for the device, and the write that returns is recorded
\* for that channel and id; a reply with the task's id received on a
\* connection of the task's device makes the task completed with the
\* screenshot and resolution of the reply when its status is success, and
\* failed with the reply's error message otherwise; a status read answers
\* with the status, result and error the task holds.
C14_HappyPath ==
    [][/\ \A r \in DOMAIN screenshot_tasks' \ DOMAIN screenshot_tasks :
            LET d == screenshot_tasks'[r].device_id IN
            /\ screenshot_tasks'[r].status = "pending"
            /\ d \in DOMAIN connected_devices
            /\ conns[connected_devices[d]].bound
            /\ conns[connected_devices[d]].device_id = d
            /\ r \in DOMAIN sending'
            /\ sending'[r] = connected_devices[d]
       /\ \A r \in DOMAIN sending \ DOMAIN sending' :
            sent' # sent => sent' = sent \cup {<<sending[r], r>>}
       /\ \A c \in Conns, reply \in Replies, r \in DOMAIN screenshot_tasks :
            ( /\ receive_reply(c, reply)
              /\ conns[c].device_id = screenshot_tasks[r].device_id
              /\ reply.command_id = Some(r)
              /\ reply.result.kind # "other" )
            => LET task == screenshot_tasks'[r] IN
               IF reply.status = "success"
               THEN /\ task.status = "completed"
                    /\ task.screenshot = reply.result.screenshot
                    /\ task.resolution = reply.result.resolution
               ELSE /\ task.status = "failed"
                    /\ task.error = IF reply.error_message = None
                                    THEN Some("Unknown error")
                                    ELSE reply.error_message
       /\ \A r \in DOMAIN screenshot_tasks :
            ReadOf(r)
            => /\ response'.code = 200
               /\ response'.status = screenshot_tasks[r].status
               /\ response'.screenshot = screenshot_tasks[r].screenshot
               /\ response'.resolution = screenshot_tasks[r].resolution
               /\ response'.error = screenshot_tasks[r].error]_vars

\* the command of a task was written to the channel of its device, and a
\* read of the task is answered completed with the screenshot of a reply
C14_Witness ==
    \E r \in DOMAIN screenshot_tasks, c \in Conns :
        /\ <<c, r>> \in sent
        /\ conns[c].bound
        /\ conns[c].device_id = screenshot_tasks[r].device_id
        /\ response.op = "status"
        /\ response.code = 200
        /\ response.request_id = r
        /\ response.status = "completed"
        /\ response.screenshot \in {res.screenshot : res \in Results}

\* C15: execute_command leaves the peer registry, the connection table, the
\* handlers and the correlator as they were, whether its write returned or
\* raised; a write that raised is answered 500.
C15_ExecuteTouchesNothing ==
    [][(Ready /\ response'.op = "execute")
       => /\ UNCHANGED <<device_registry, connected_devices, conns,
                         screenshot_tasks, sent, sending>>
          /\ response'.wrote # None
             => /\ response'.code \in {200, 500}
                /\ response'.wrote[1] = connected_devices[response'.device_id]]_vars

\* a write of execute_command raised and was answered 500
C15_Witness ==
    /\ response.op = "execute"
    /\ response.code = 500
    /\ response.wrote # None

\* C16: a connection that was accepted and has not sent its authentication
\* message eventually is closed.
C16_AcceptedEventuallyClosed ==
    \A c \in Conns : (conns[c].pc = "accepted") ~> (conns[c].pc = "closed")

\* C17: a handler that received a message it could not parse has ended and
\* has run its cleanup; the step in which it received that message changed
\* no task, and an ended handler takes no further step.
C17_MalformedEndsConnection ==
    [][\A c \in Conns :
         /\ conns'[c].exit = "error"
            => /\ conns'[c].pc = "closed"
               /\ conns'[c].cleanups = 1
               /\ c \notin Range(connected_devices')
         /\ (conns[c].pc = "active" /\ conns'[c].exit = "error")
            => screenshot_tasks' = screenshot_tasks
         /\ conns[c].pc = "closed" => conns'[c] = conns[c]]_vars

\* an active connection ended on a malformed message while a task was
\* pending
C17_Witness ==
    \E c \in Conns, r \in DOMAIN screenshot_tasks :
        /\ conns[c].pc = "closed" /\ conns[c].bound
        /\ conns[c].exit = "error"
        /\ screenshot_tasks[r].status = "pending"
        /\ screenshot_tasks[r].device_id = conns[c].device_id

\* C18: every screenshot command that is being written or was written to a
\* channel has a task that was stored before: the task is in the correlator,
\* or it made a terminal transition (and may have been removed since).
C18_TaskBeforeWrite ==
    \A r \in RequestIds :
        (r \in DOMAIN sending \/ \E ch \in Conns : <<ch, r>> \in sent)
        => /\ r \in DOMAIN done_at
           /\ r \in DOMAIN screenshot_tasks \/ done_at[r] # None

\* the write of a command is in progress and its task is pending
C18_Witness ==
    \E r \in DOMAIN sending :
        /\ r \in DOMAIN screenshot_tasks
        /\ screenshot_tasks[r].status = "pending"

\* C19: a registered peer's status is connected exactly when the connection
\* table holds an entry for it.
C19_ConnectedIffBound ==
    \A p \in DOMAIN device_registry :
        device_registry[p].status = "connected"
        <=> p \in DOMAIN connected_devices

\* a peer is marked disconnected and has no entry although one of its
\* connections is still in its receive loop
C19_Witness ==
    \E p \in DOMAIN device_registry, c \in Conns :
        /\ device_registry[p].status = "disconnected"
        /\ p \notin DOMAIN connected_devices
        /\ conns[c].pc = "active" /\ conns[c].device_id = p

\* C20: every channel in the connection table belongs to a handler that
\* authenticated and has not ended, and request_screenshot and
\* execute_command call send_text only on the channel of such a handler.
C20_NoDanglingChannel ==
    /\ [](\A p \in DOMAIN connected_devices :
            LET c == connected_devices[p] IN
            /\ conns[c].pc = "active"
            /\ conns[c].bound
            /\ conns[c].device_id = p)
    /\ []((response.op = "execute" /\ response.wrote # None)
          => conns[response.wrote[1]].pc = "active")
    /\ [][\A r \in DOMAIN sending' \ DOMAIN sending :
            conns[sending'[r]].pc = "active"]_vars

\* a command was written to the channel of a device of which an earlier
\* handler has ended
C20_Witness ==
    \E c \in Conns :
        /\ response.op = "execute"
        /\ response.code = 200
        /\ conns[c].pc = "closed" /\ conns[c].bound
        /\ conns[c].device_id = response.device_id
====
